---- MODULE Spec2Model ----
(***************************************************************************)
(* A model of the PyDriller mining engine vendored in this repository:     *)
(*   pydriller/repository_mining.py  RepositoryMining                      *)
(*   pydriller/domain/commit.py      Commit, Modification                  *)
(*                                                                         *)
(* Three specifications share the module.                                  *)
(*   Spec      the constructor of RepositoryMining and one pass of the     *)
(*             traverse_commits generator;                                 *)
(*   SpecDiff  Commit.modifications and the loop of Commit._parse_diff;    *)
(*   SpecLines Modification.added and Modification.removed on a diff text. *)
(*                                                                         *)
(* Conventions.  Python's None is the empty tuple and a present value v is *)
(* <<v>>.  A text is a tuple of one-character strings, a bytes object a    *)
(* tuple of byte values.  A commit hash is a natural number.  A datetime   *)
(* is a record [t, aware]: t the instant, aware whether it has a tzinfo.   *)
(***************************************************************************)
EXTENDS Integers, Sequences, FiniteSets, TLC

---------------------------------------------------------------------------
(* Bounds of the model. *)
MaxCommits == 2
MaxDate == 2
MaxEntries == 2
MaxLen == 4

---------------------------------------------------------------------------
(* Optional values. *)
None == <<>>
Some(v) == <<v>>
Val(o) == o[1]

Aware(t) == [t |-> t, aware |-> TRUE]
Naive(t) == [t |-> t, aware |-> FALSE]

RECURSIVE Reverse(_)
Reverse(s) == IF s = <<>> THEN <<>> ELSE Append(Reverse(Tail(s)), Head(s))

---------------------------------------------------------------------------
(* Texts used as paths and suffixes. *)
SEP == "/"
DEV_NULL == <<"/", "d", "e", "v", "/", "n", "u", "l", "l">>
APP_PY == <<"a", "p", "p", ".", "p", "y">>
SRC_APP_PY == <<"s", "r", "c", "/", "a", "p", "p", ".", "p", "y">>
PY_README_MD == <<"p", "y", "/", "r", "e", "a", "d", "m", "e", ".", "m", "d">>
README_MD == <<"r", "e", "a", "d", "m", "e", ".", "m", "d">>
OLD_PY == <<"o", "l", "d", ".", "p", "y">>
DOT_PY == <<".", "p", "y">>

(* str.endswith(suffix) *)
EndsWith(s, suf) ==
    /\ Len(suf) <= Len(s)
    /\ SubSeq(s, Len(s) - Len(suf) + 1, Len(s)) = suf

(* str.endswith(tuple): true when some member of the tuple is a suffix. *)
EndsWithAny(s, sufs) == \E k \in 1..Len(sufs) : EndsWith(s, sufs[k])

(* str.startswith(prefix) *)
StartsWith(s, pre) ==
    /\ Len(pre) <= Len(s)
    /\ SubSeq(s, 1, Len(pre)) = pre

(* path.split(os.sep)[-1]: the text after the last separator. *)
RECURSIVE LastSegment(_)
LastSegment(p) ==
    IF \A k \in 1..Len(p) : p[k] # SEP
    THEN p
    ELSE LastSegment(Tail(p))

---------------------------------------------------------------------------
(* pydriller/domain/commit.py *)

(* ModificationType: ADD = 1, COPY = 2, RENAME = 3, DELETE = 4, are one-   *)
(* tuples in the source (trailing commas); MODIFY = 5 is written here as a *)
(* one-tuple as well.  The values are pairwise distinct and none is None.  *)
ADD == <<1>>
COPY == <<2>>
RENAME == <<3>>
DELETE == <<4>>
MODIFY == <<5>>
ModificationType == {ADD, COPY, RENAME, DELETE, MODIFY}

(* The tree a root commit is diffed against. *)
NULL_TREE == "4b825dc642cb6eb9a060e54bf8d69288fbee4904"

(* bytes.decode('utf-8') on the bytes of the model: ASCII bytes and the    *)
(* two-byte sequences decode, any other byte raises UnicodeDecodeError     *)
(* (None here).                                                            *)
Chr(b) ==
    CASE b = 10 -> "\n"
      [] b = 13 -> "\r"
      [] b = 43 -> "+"
      [] b = 45 -> "-"
      [] b = 97 -> "a"
      [] OTHER -> "?"

Chr2(b1, b2) == IF b1 = 195 /\ b2 = 169 THEN "e-acute" ELSE "U+0080.."

RECURSIVE Utf8Decode(_)
Utf8Decode(b) ==
    IF b = <<>> THEN Some(<<>>)
    ELSE IF b[1] < 128
    THEN LET rest == Utf8Decode(Tail(b))
         IN  IF rest = None THEN None ELSE Some(<<Chr(b[1])>> \o Val(rest))
    ELSE IF b[1] \in 194..223 /\ Len(b) >= 2 /\ b[2] \in 128..191
    THEN LET rest == Utf8Decode(Tail(Tail(b)))
         IN  IF rest = None THEN None
             ELSE Some(<<Chr2(b[1], b[2])>> \o Val(rest))
    ELSE None

(* Commit._from_change_to_modification_type: the function has no final     *)
(* else, so it returns None when no branch is taken.                       *)
FromChangeToModificationType(d) ==
    IF d.new_file THEN ADD
    ELSE IF d.deleted_file THEN DELETE
    ELSE IF d.renamed_file THEN RENAME
    ELSE IF d.a_blob # None /\ d.b_blob # None /\ Val(d.a_blob).id # Val(d.b_blob).id
    THEN MODIFY
    ELSE None

(* Mutant: the source code is read from the pre-change blob. *)
DecodeTexts_ReadsOldBlob(d) ==
    LET dt == Utf8Decode(d.diff)
    IN  IF dt = None
        THEN [diff_text |-> <<>>, sc |-> <<>>]
        ELSE IF d.a_blob = None
        THEN [diff_text |-> Val(dt), sc |-> <<>>]
        ELSE LET st == Utf8Decode(Val(d.a_blob).data)
             IN  IF st = None
                 THEN [diff_text |-> Val(dt), sc |-> <<>>]
                 ELSE [diff_text |-> Val(dt), sc |-> Val(st)]

(* The try block of Commit._parse_diff: diff_text and sc start as '', the  *)
(* two assignments run in order, and the first exception (a decoding       *)
(* error, or AttributeError on a missing b_blob) leaves the rest undone.   *)
DecodeTexts(d) ==
    LET dt == Utf8Decode(d.diff)
    IN  IF dt = None
        THEN [diff_text |-> <<>>, sc |-> <<>>]
        ELSE IF d.b_blob = None
        THEN [diff_text |-> Val(dt), sc |-> <<>>]
        ELSE LET st == Utf8Decode(Val(d.b_blob).data)
             IN  IF st = None
                 THEN [diff_text |-> Val(dt), sc |-> <<>>]
                 ELSE [diff_text |-> Val(dt), sc |-> Val(st)]

(* Modification.__init__ *)
Modification(old_path, new_path, change_type, diff_text, sc) ==
    [old_path |-> old_path, new_path |-> new_path, change_type |-> change_type,
     diff |-> diff_text, source_code |-> sc]

(* Mutant: the two paths of the entry are taken the wrong way round. *)
ParseEntry_SwapsPaths(d) ==
    LET old_path == d.b_path
        new_path == d.a_path
        change_type == FromChangeToModificationType(d)
        txt == DecodeTexts(d)
    IN  Modification(old_path, new_path, change_type, txt.diff_text, txt.sc)

(* One iteration of the loop of Commit._parse_diff. *)
ParseEntry(d) ==
    LET old_path == d.a_path
        new_path == d.b_path
        change_type == FromChangeToModificationType(d)
        txt == DecodeTexts(d)
    IN  Modification(old_path, new_path, change_type, txt.diff_text, txt.sc)

(* Commit._parse_diff as a whole. *)
RECURSIVE ParseDiffFrom(_, _, _)
ParseDiffFrom(diff_index, k, modifications_list) ==
    IF k > Len(diff_index) THEN modifications_list
    ELSE ParseDiffFrom(diff_index, k + 1,
                       Append(modifications_list, ParseEntry(diff_index[k])))

ParseDiff(diff_index) == ParseDiffFrom(diff_index, 1, <<>>)

(* str.replace(old, '') for a one-character old. *)
RECURSIVE Remove(_, _)
Remove(s, old) ==
    IF s = <<>> THEN <<>>
    ELSE IF Head(s) = old THEN Remove(Tail(s), old)
    ELSE <<Head(s)>> \o Remove(Tail(s), old)

(* str.split(sep) for a one-character sep: the pieces between the          *)
(* separators, one more than there are separators.                         *)
RECURSIVE Split(_, _)
Split(s, sep) ==
    IF \A k \in 1..Len(s) : s[k] # sep THEN <<s>>
    ELSE LET first == CHOOSE k \in 1..Len(s) :
                        s[k] = sep /\ \A j \in 1..(k - 1) : s[j] # sep
         IN  <<SubSeq(s, 1, first - 1)>> \o Split(SubSeq(s, first + 1, Len(s)), sep)

(* The loop of Modification.added and Modification.removed. *)
RECURSIVE CountLines(_, _, _)
CountLines(lines, mark, header) ==
    IF lines = <<>> THEN 0
    ELSE (IF StartsWith(Head(lines), mark) /\ ~StartsWith(Head(lines), header)
          THEN 1 ELSE 0)
         + CountLines(Tail(lines), mark, header)

(* Mutant: the carriage returns are left in the text. *)
Added_KeepsCR(diff) ==
    CountLines(Split(diff, "\n"), <<"+">>, <<"+", "+", "+">>)

(* Modification.added *)
Added(diff) ==
    CountLines(Split(Remove(diff, "\r"), "\n"), <<"+">>, <<"+", "+", "+">>)

(* Modification.removed *)
Removed(diff) ==
    CountLines(Split(Remove(diff, "\r"), "\n"), <<"-">>, <<"-", "-", "-">>)

(* Modification.filename *)
Filename(mod) ==
    LET path == IF mod.new_path # None /\ Val(mod.new_path) # DEV_NULL
                THEN Val(mod.new_path)
                ELSE Val(mod.old_path)
    IN  IF \A k \in 1..Len(path) : path[k] # SEP
        THEN path
        ELSE LastSegment(path)

(* Commit.merge *)
Merge(c) == Len(c.parents) > 1

(* The base Commit.modifications diffs the commit against. *)
DiffBase(parents) == IF Len(parents) > 0 THEN "parents[0]" ELSE NULL_TREE

---------------------------------------------------------------------------
(* The backend (GitPython), as the interface of the design describes it:   *)
(* blobs, the entries of a diff index, and the diff indexes a base gives.  *)
Blob(id, data) == [id |-> id, data |-> data]
B1 == Blob(1, <<97>>)
B2 == Blob(2, <<97, 195, 169>>)
B3 == Blob(3, <<255, 97>>)

DIFF_OK == <<43, 97, 10>>
DIFF_BAD == <<43, 255>>

NewEntry(path, blob, diff) ==
    [a_path |-> None, b_path |-> Some(path),
     new_file |-> TRUE, deleted_file |-> FALSE, renamed_file |-> FALSE,
     a_blob |-> None, b_blob |-> Some(blob), diff |-> diff]

DeletedEntry(path, new_path, diff) ==
    [a_path |-> Some(path), b_path |-> new_path,
     new_file |-> FALSE, deleted_file |-> TRUE, renamed_file |-> FALSE,
     a_blob |-> Some(B1), b_blob |-> None, diff |-> diff]

RenamedEntry(old, new, diff) ==
    [a_path |-> Some(old), b_path |-> Some(new),
     new_file |-> FALSE, deleted_file |-> FALSE, renamed_file |-> TRUE,
     a_blob |-> Some(B1), b_blob |-> Some(B1), diff |-> diff]

(* No flag set: a content change when blob differs from B1, a change of    *)
(* file mode alone when it is B1.                                          *)
ChangedEntry(path, blob, diff) ==
    [a_path |-> Some(path), b_path |-> Some(path),
     new_file |-> FALSE, deleted_file |-> FALSE, renamed_file |-> FALSE,
     a_blob |-> Some(B1), b_blob |-> Some(blob), diff |-> diff]

(* The diff indexes the backend can give for a base.  The entry at         *)
(* position j changes the path PathAt(j).  Against the empty tree every    *)
(* entry is a new file; against a parent an entry is a new, deleted,       *)
(* renamed or changed file or a change of mode, with a diff text and a     *)
(* post-change blob that decode or do not.                                 *)
Paths == <<APP_PY, README_MD, SRC_APP_PY, PY_README_MD>>
PathAt(j) == Paths[((j - 1) % Len(Paths)) + 1]

DiffTexts == {DIFF_OK, DIFF_BAD}

NewEntries(j) == {NewEntry(PathAt(j), b, d) : b \in {B2, B3}, d \in DiffTexts}

ParentEntries(j) ==
    NewEntries(j)
    \cup {DeletedEntry(PathAt(j), None, d) : d \in DiffTexts}
    \cup {RenamedEntry(OLD_PY, PathAt(j), d) : d \in DiffTexts}
    \cup {ChangedEntry(PathAt(j), b, d) : b \in {B1, B2, B3}, d \in DiffTexts}

EntriesAt(base, j) == IF base = NULL_TREE THEN NewEntries(j) ELSE ParentEntries(j)

RECURSIVE DiffIndexesOfLen(_, _)
DiffIndexesOfLen(base, n) ==
    IF n = 0 THEN {<<>>}
    ELSE {Append(di, e) : di \in DiffIndexesOfLen(base, n - 1), e \in EntriesAt(base, n)}

BackendDiff(base) == UNION {DiffIndexesOfLen(base, n) : n \in 0..MaxEntries}

ParentLists == {<<>>, <<90>>, <<90, 91>>}

(* The diff texts a Modification is built from: every text of at most      *)
(* MaxLen characters over the markers, the line ends and a letter, and the *)
(* text "+++ b/x.py\n+print(1)\n".                                         *)
DiffChars == {"+", "-", "\n", "\r", "a"}

EXAMPLE_DIFF ==
    <<"+", "+", "+", " ", "b", "/", "x", ".", "p", "y", "\n",
      "+", "p", "r", "i", "n", "t", "(", "1", ")", "\n">>

DiffStrings ==
    {EXAMPLE_DIFF} \cup UNION {[1..n -> DiffChars] : n \in 0..MaxLen}

(* The commits the backend can list.  The k-th listed commit has hash k;   *)
(* its shape is one of three, named by its tree: "t1" a root commit on     *)
(* master that adds app.py, "t2" a commit on master and dev that changes   *)
(* py/readme.md, "t3" a merge on dev whose first-parent delta is an        *)
(* undecodable change of readme.md and the deletion of src/app.py (new     *)
(* path /dev/null).                                                        *)
MAIN_BRANCH == "master"

CommitKinds ==
    { [parents |-> <<>>, branches |-> {"master"}, tree |-> "t1"],
      [parents |-> <<90>>, branches |-> {"master", "dev"}, tree |-> "t2"],
      [parents |-> <<90, 91>>, branches |-> {"dev"}, tree |-> "t3"] }

(* The diff index the backend gives for a listed commit. *)
DiffIndexOf(c) ==
    CASE c.tree = "t1" -> <<NewEntry(APP_PY, B2, DIFF_OK)>>
      [] c.tree = "t2" -> <<ChangedEntry(PY_README_MD, B2, DIFF_OK)>>
      [] c.tree = "t3" -> <<ChangedEntry(README_MD, B3, DIFF_BAD),
                            DeletedEntry(SRC_APP_PY, Some(DEV_NULL), DIFF_OK)>>

Dates == 1..MaxDate

RawCommit(hash, kind, t) ==
    [hash |-> hash, author_date |-> Aware(t), parents |-> kind.parents,
     branches |-> kind.branches, tree |-> kind.tree]

CommitLists ==
    UNION { { [k \in 1..n |-> RawCommit(k, f[k][1], f[k][2])] :
              f \in [1..n -> CommitKinds \X Dates] } : n \in 0..MaxCommits }

(* What get_commit / get_commit_from_tag hand back: a commit, of which the *)
(* constructor reads the author date, or a failure to resolve the name.    *)
Unresolved == <<>>
Resolutions == {Unresolved} \cup {<<t>> : t \in Dates}

(* The backend is asked for a name only when the name was given and no    *)
(* exception has been raised before (st.err is "").                        *)
Answers(st, name) ==
    IF st.err # "" \/ name = None THEN {Unresolved} ELSE Resolutions

(* Commit.in_main_branch *)
InMainBranch(c) == MAIN_BRANCH \in c.branches

(* Commit.modifications, for a commit whose diff index the backend gives.  *)
Modifications(c) == ParseDiff(DiffIndexOf(c))

---------------------------------------------------------------------------
(* pydriller/repository_mining.py *)

(* The arguments a caller passes to RepositoryMining(...). *)
OptDates == {None} \cup {Some(Aware(t)) : t \in Dates} \cup {Some(Naive(t)) : t \in Dates}

ArgsSet ==
    [single : {None, Some(2), Some(0)},
     since : OptDates, to : OptDates,
     from_commit : {None, Some(1)}, to_commit : {None, Some(1)},
     from_tag : {None, Some("v1")}, to_tag : {None, Some("v2")},
     reversed_order : BOOLEAN,
     only_in_main_branch : BOOLEAN,
     only_in_branches : {None, Some({"dev"})},
     only_modifications_with_file_types : {None, Some(<<DOT_PY>>)},
     only_no_merge : BOOLEAN]

(* RepositoryMining.__init__, lines 55-62: the fields as assigned. *)
NewObject(a) ==
    [single |-> a.single, since |-> a.since, to |-> a.to,
     reversed_order |-> a.reversed_order,
     only_in_main_branch |-> a.only_in_main_branch,
     only_in_branches |-> a.only_in_branches,
     only_modifications_with_file_types |-> a.only_modifications_with_file_types,
     only_no_merge |-> a.only_no_merge]

(* RepositoryMining._check_filters, one block per if of the source.  A     *)
(* block takes and gives [err, since, to]: err is "" while no exception    *)
(* has been raised, since and to are self.since and self.to.  r is what    *)
(* the backend answers to the block's lookup.                              *)
CheckSingle(a, st) ==
    IF st.err # "" THEN st
    ELSE IF a.single # None
            /\ (a.since # None \/ a.to # None \/ a.from_commit # None
                \/ a.to_commit # None \/ a.from_tag # None \/ a.to_tag # None)
    THEN [st EXCEPT !.err = "config"]
    ELSE st

CheckFromCommit(a, st, r) ==
    IF st.err # "" \/ a.from_commit = None THEN st
    ELSE IF a.since # None THEN [st EXCEPT !.err = "config"]
    ELSE IF r = Unresolved THEN [st EXCEPT !.err = "backend"]
    ELSE [st EXCEPT !.since = Some(Aware(r[1]))]

CheckToCommit(a, st, r) ==
    IF st.err # "" \/ a.to_commit = None THEN st
    ELSE IF a.to # None THEN [st EXCEPT !.err = "config"]
    ELSE IF r = Unresolved THEN [st EXCEPT !.err = "backend"]
    ELSE [st EXCEPT !.to = Some(Aware(r[1]))]

(* Mutant: the from_tag check forgets from_commit. *)
CheckFromTag_ForgetsFromCommit(a, st, r) ==
    IF st.err # "" \/ a.from_tag = None THEN st
    ELSE IF a.since # None THEN [st EXCEPT !.err = "config"]
    ELSE IF r = Unresolved THEN [st EXCEPT !.err = "backend"]
    ELSE [st EXCEPT !.since = Some(Aware(r[1]))]

CheckFromTag(a, st, r) ==
    IF st.err # "" \/ a.from_tag = None THEN st
    ELSE IF a.since # None \/ a.from_commit # None THEN [st EXCEPT !.err = "config"]
    ELSE IF r = Unresolved THEN [st EXCEPT !.err = "backend"]
    ELSE [st EXCEPT !.since = Some(Aware(r[1]))]

CheckToTag(a, st, r) ==
    IF st.err # "" \/ a.to_tag = None THEN st
    ELSE IF a.to # None \/ a.to_commit # None THEN [st EXCEPT !.err = "config"]
    ELSE IF r = Unresolved THEN [st EXCEPT !.err = "backend"]
    ELSE [st EXCEPT !.to = Some(Aware(r[1]))]

(* RepositoryMining._check_timezones: a bound with no tzinfo gets UTC. *)
WithUtc(d) == IF d = None \/ Val(d).aware THEN d ELSE Some(Aware(Val(d).t))

CheckTimezones(self) ==
    [self EXCEPT !.since = WithUtc(self.since), !.to = WithUtc(self.to)]

(* Mutant: the fast path forgets the upper bound. *)
AllFiltersAreNone_ForgetsTo(self) ==
    self.single = None /\ self.since = None

(* RepositoryMining._all_filters_are_none *)
AllFiltersAreNone(self) ==
    self.single = None /\ self.since = None /\ self.to = None

(* The loop of RepositoryMining._apply_filters_on_commits. *)
RECURSIVE ApplyFiltersLoop(_, _, _, _)
ApplyFiltersLoop(self, all_commits, k, res) ==
    IF k > Len(all_commits) THEN res
    ELSE LET commit == all_commits[k]
         IN  IF self.single # None /\ commit.hash = Val(self.single)
             THEN <<commit>>
             ELSE IF (self.since = None \/ Val(self.since).t <= commit.author_date.t)
                     /\ (self.to = None \/ commit.author_date.t <= Val(self.to).t)
             THEN ApplyFiltersLoop(self, all_commits, k + 1, Append(res, commit))
             ELSE ApplyFiltersLoop(self, all_commits, k + 1, res)

(* RepositoryMining._apply_filters_on_commits *)
ApplyFiltersOnCommits(self, all_commits) ==
    IF AllFiltersAreNone(self) THEN all_commits
    ELSE ApplyFiltersLoop(self, all_commits, 1, <<>>)

(* RepositoryMining._commit_branch_in_branches *)
CommitBranchInBranches(self, commit) ==
    \E branch \in commit.branches : branch \in Val(self.only_in_branches)

(* RepositoryMining._has_modification_with_file_type: the loop returns    *)
(* True at the first modification whose filename has one of the suffixes   *)
(* and False when there is none.                                           *)
(* Mutant: the loop returns after the first modification. *)
HasModificationWithFileType_FirstOnly(self, commit) ==
    LET modifications == Modifications(commit)
    IN  /\ Len(modifications) > 0
        /\ EndsWithAny(Filename(modifications[1]),
                       Val(self.only_modifications_with_file_types))

HasModificationWithFileType(self, commit) ==
    LET modifications == Modifications(commit)
    IN  \E k \in 1..Len(modifications) :
          EndsWithAny(Filename(modifications[k]),
                      Val(self.only_modifications_with_file_types))

(* The properties of the commit _is_commit_filtered reads when every test *)
(* up to and including the n-th passes: `and` and `is not None` read the   *)
(* property only when the filter is set.  Reading in_main_branch or        *)
(* branches asks the backend for the branches of the commit; reading       *)
(* modifications asks it for the diff of the commit.                       *)
PropertiesRead(self, n) ==
    LET r1 == IF self.only_in_main_branch THEN <<"in_main_branch">> ELSE <<>>
        r2 == IF self.only_in_branches # None THEN Append(r1, "branches") ELSE r1
        r3 == IF self.only_modifications_with_file_types # None
              THEN Append(r2, "modifications") ELSE r2
        r4 == IF self.only_no_merge THEN Append(r3, "merge") ELSE r3
    IN  <<r1, r2, r3, r4>>[n]

(* Mutant: the file types are tested before the branches. *)
CommitFilterRun_FileTypesFirst(self, commit) ==
    LET r0 == IF self.only_modifications_with_file_types # None
              THEN <<"modifications">> ELSE <<>>
        r1 == IF self.only_in_main_branch THEN Append(r0, "in_main_branch") ELSE r0
        r2 == IF self.only_in_branches # None THEN Append(r1, "branches") ELSE r1
        r3 == IF self.only_no_merge THEN Append(r2, "merge") ELSE r2
    IN  IF self.only_modifications_with_file_types # None
           /\ ~HasModificationWithFileType(self, commit)
        THEN [filtered |-> TRUE, reads |-> r0]
        ELSE IF self.only_in_main_branch /\ ~InMainBranch(commit)
        THEN [filtered |-> TRUE, reads |-> r1]
        ELSE IF self.only_in_branches # None /\ ~CommitBranchInBranches(self, commit)
        THEN [filtered |-> TRUE, reads |-> r2]
        ELSE IF self.only_no_merge /\ Merge(commit)
        THEN [filtered |-> TRUE, reads |-> r3]
        ELSE [filtered |-> FALSE, reads |-> r3]

(* One call of _is_commit_filtered: what it returns and the properties of  *)
(* the commit it has read by then.                                         *)
CommitFilterRun(self, commit) ==
    IF self.only_in_main_branch /\ ~InMainBranch(commit)
    THEN [filtered |-> TRUE, reads |-> PropertiesRead(self, 1)]
    ELSE IF self.only_in_branches # None /\ ~CommitBranchInBranches(self, commit)
    THEN [filtered |-> TRUE, reads |-> PropertiesRead(self, 2)]
    ELSE IF self.only_modifications_with_file_types # None
            /\ ~HasModificationWithFileType(self, commit)
    THEN [filtered |-> TRUE, reads |-> PropertiesRead(self, 3)]
    ELSE IF self.only_no_merge /\ Merge(commit)
    THEN [filtered |-> TRUE, reads |-> PropertiesRead(self, 4)]
    ELSE [filtered |-> FALSE, reads |-> PropertiesRead(self, 4)]

(* RepositoryMining._is_commit_filtered *)
IsCommitFiltered(self, commit) == CommitFilterRun(self, commit).filtered

(* Mutant: the test of reversed_order is inverted. *)
OrderedCommits_Inverted(self, listing) ==
    LET all_cs == ApplyFiltersOnCommits(self, listing)
    IN  IF self.reversed_order THEN Reverse(all_cs) ELSE all_cs

(* traverse_commits up to its loop: the listing, the filters, the order. *)
OrderedCommits(self, listing) ==
    LET all_cs == ApplyFiltersOnCommits(self, listing)
    IN  IF ~self.reversed_order THEN Reverse(all_cs) ELSE all_cs

---------------------------------------------------------------------------
VARIABLES
    pc,          \* RepositoryMining: "new", "init", "ready", "iter", "done", "error"
    args,        \* the arguments of the running or failed constructor call
    rm,          \* the RepositoryMining object: None before __init__ assigns it
    err,         \* the exception __init__ raised: "", "config" or "backend"
    list_calls,  \* how many times git_repo.get_list_commits() was called
    listed,      \* what get_list_commits() returned (backend order)
    all_cs,      \* traverse_commits: the list the loop runs over
    idx,         \* traverse_commits: the position of the loop in all_cs
    yielded,     \* the commits the generator has yielded, in order
    reads,       \* the properties the last _is_commit_filtered call read
    diffed,      \* the hashes of the commits the backend was asked to diff
    dpc,         \* Commit.modifications: "idle", "new", "parse", "done"
    c_parents,   \* the parents of the commit whose modifications are read
    diff_base,   \* what the commit was diffed against
    d_index,     \* the diff index the backend gave
    d_k,         \* _parse_diff: the position of the loop in the diff index
    mods,        \* _parse_diff: modifications_list
    got,         \* Modification: the properties read so far
    diff_txt,    \* Modification.diff
    added,       \* what Modification.added returned
    removed      \* what Modification.removed returned

mvars == <<pc, args, rm, err, list_calls, listed, all_cs, idx, yielded, reads, diffed>>
dvars == <<dpc, c_parents, diff_base, d_index, d_k, mods>>
lvars == <<got, diff_txt, added, removed>>
vars == <<mvars, dvars, lvars>>

(* The parts of the state a specification does not use stay as they are. *)
MiningIdle ==
    /\ pc = "idle" /\ args = None /\ rm = None /\ err = ""
    /\ list_calls = 0 /\ listed = <<>> /\ all_cs = <<>> /\ idx = 0
    /\ yielded = <<>> /\ reads = <<>> /\ diffed = {}

DiffIdle ==
    /\ dpc = "idle" /\ c_parents = <<>> /\ diff_base = "" /\ d_index = <<>>
    /\ d_k = 0 /\ mods = <<>>

LinesIdle ==
    /\ got = {"idle"} /\ diff_txt = <<>> /\ added = 0 /\ removed = 0

Init ==
    /\ pc = "new" /\ args = None /\ rm = None /\ err = ""
    /\ list_calls = 0 /\ listed = <<>> /\ all_cs = <<>> /\ idx = 0
    /\ yielded = <<>> /\ reads = <<>> /\ diffed = {}
    /\ DiffIdle /\ LinesIdle

(* RepositoryMining.__init__ up to the call of _check_filters. *)
Call ==
    /\ pc = "new"
    /\ \E a \in ArgsSet :
         /\ args' = Some(a)
         /\ rm' = Some(NewObject(a))
    /\ pc' = "init"
    /\ UNCHANGED <<err, list_calls, listed, all_cs, idx, yielded, reads, diffed, dvars, lvars>>

(* _check_filters and _check_timezones, to the return or raise of __init__. *)
CheckFilters ==
    /\ pc = "init"
    /\ LET a == Val(args)
           s0 == [err |-> "", since |-> Val(rm).since, to |-> Val(rm).to]
           s1 == CheckSingle(a, s0)
       IN
       \E r1 \in Answers(s1, a.from_commit) :
       LET s2 == CheckFromCommit(a, s1, r1) IN
       \E r2 \in Answers(s2, a.to_commit) :
       LET s3 == CheckToCommit(a, s2, r2) IN
       \E r3 \in Answers(s3, a.from_tag) :
       LET s4 == CheckFromTag(a, s3, r3) IN
       \E r4 \in Answers(s4, a.to_tag) :
         LET out == CheckToTag(a, s4, r4)
             obj == [Val(rm) EXCEPT !.since = out.since, !.to = out.to]
         IN  IF out.err # ""
             THEN /\ pc' = "error"
                  /\ err' = out.err
                  /\ rm' = Some(obj)
                  /\ args' = args
             ELSE /\ pc' = "ready"
                  /\ err' = err
                  /\ rm' = Some(CheckTimezones(obj))
                  /\ args' = None
    /\ UNCHANGED <<list_calls, listed, all_cs, idx, yielded, reads, diffed, dvars, lvars>>

(* traverse_commits from the first next() to the head of the loop. *)
TraverseStart ==
    /\ pc = "ready"
    /\ \E listing \in CommitLists :
         /\ listed' = listing
         /\ all_cs' = OrderedCommits(Val(rm), listing)
    /\ list_calls' = list_calls + 1
    /\ idx' = 1
    /\ pc' = "iter"
    /\ UNCHANGED <<args, rm, err, yielded, reads, diffed, dvars, lvars>>

(* One iteration of the loop: the commit is skipped or yielded. *)
TraverseNext ==
    /\ pc = "iter"
    /\ idx <= Len(all_cs)
    /\ LET run == CommitFilterRun(Val(rm), all_cs[idx])
       IN  /\ yielded' = IF run.filtered
                         THEN yielded
                         ELSE Append(yielded, all_cs[idx])
           /\ reads' = run.reads
           /\ diffed' = IF \E k \in 1..Len(run.reads) : run.reads[k] = "modifications"
                        THEN diffed \cup {all_cs[idx].hash}
                        ELSE diffed
    /\ idx' = idx + 1
    /\ UNCHANGED <<pc, args, rm, err, list_calls, listed, all_cs, dvars, lvars>>

(* The loop is exhausted: the generator returns. *)
TraverseEnd ==
    /\ pc = "iter"
    /\ idx > Len(all_cs)
    /\ pc' = "done"
    /\ UNCHANGED <<args, rm, err, list_calls, listed, all_cs, idx, yielded,
                   reads, diffed, dvars, lvars>>

Next == Call \/ CheckFilters \/ TraverseStart \/ TraverseNext \/ TraverseEnd

Spec == Init /\ [][Next]_vars

---------------------------------------------------------------------------
(* Commit.modifications and Commit._parse_diff, step by step. *)

InitDiff ==
    /\ dpc = "new" /\ c_parents \in ParentLists /\ diff_base = ""
    /\ d_index = <<>> /\ d_k = 0 /\ mods = <<>>
    /\ MiningIdle /\ LinesIdle

(* Commit.modifications up to the call of _parse_diff: the base is the     *)
(* first parent, or the empty tree for a commit with no parent.            *)
ReadModifications ==
    /\ dpc = "new"
    /\ diff_base' = DiffBase(c_parents)
    /\ d_index' \in BackendDiff(DiffBase(c_parents))
    /\ mods' = <<>>
    /\ d_k' = 1
    /\ dpc' = "parse"
    /\ UNCHANGED <<c_parents, mvars, lvars>>

(* One iteration of the loop of _parse_diff. *)
ParseStep ==
    /\ dpc = "parse"
    /\ d_k <= Len(d_index)
    /\ mods' = Append(mods, ParseEntry(d_index[d_k]))
    /\ d_k' = d_k + 1
    /\ UNCHANGED <<dpc, c_parents, diff_base, d_index, mvars, lvars>>

(* _parse_diff returns modifications_list. *)
ParseReturn ==
    /\ dpc = "parse"
    /\ d_k > Len(d_index)
    /\ dpc' = "done"
    /\ UNCHANGED <<c_parents, diff_base, d_index, d_k, mods, mvars, lvars>>

NextDiff == ReadModifications \/ ParseStep \/ ParseReturn

SpecDiff == InitDiff /\ [][NextDiff]_vars

---------------------------------------------------------------------------
(* Properties of the mining engine, checked under Spec. *)

Traversing == pc \in {"iter", "done"}
Self == Val(rm)
InSeq(c, seq) == \E k \in 1..Len(seq) : seq[k] = c

(* C1: with singleCommitHash set, traverse_commits yields at most one      *)
(* commit, and a yielded commit has that hash; also when no listed commit  *)
(* has the hash.                                                           *)
C1_SingleYieldsOnlyThatCommit ==
    (Traversing /\ Self.single # None) =>
        /\ Len(yielded) <= 1
        /\ \A k \in 1..Len(yielded) : yielded[k].hash = Val(Self.single)

(* C2: without singleCommitHash and with since <= to (either may be        *)
(* unset), every yielded commit has since <= authorDate when since is set  *)
(* and authorDate <= to when to is set.                                    *)
ValidWindow(self) ==
    /\ self.single = None
    /\ (self.since # None /\ self.to # None) => Val(self.since).t <= Val(self.to).t

InWindow(self, c) ==
    /\ self.since # None => Val(self.since).t <= c.author_date.t
    /\ self.to # None => c.author_date.t <= Val(self.to).t

C2_YieldedInsideWindow ==
    (Traversing /\ ValidWindow(Self)) =>
        \A k \in 1..Len(yielded) : InWindow(Self, yielded[k])

C2_Witness ==
    /\ pc = "done"
    /\ ValidWindow(Self)
    /\ Self.since # None /\ Self.to # None
    /\ yielded # <<>>
    /\ \E k \in 1..Len(listed) : ~InWindow(Self, listed[k])

(* C3: the commits that survive are yielded in backend order when          *)
(* reversedOrder is true and in the reverse of backend order when it is    *)
(* false; which commits survive does not depend on reversedOrder, so the   *)
(* two sequences are reverses of each other, with or without a window.     *)
Survives(c) == ~IsCommitFiltered(Self, c)
Survivors == SelectSeq(ApplyFiltersOnCommits([Self EXCEPT !.reversed_order = FALSE], listed),
                       Survives)
IsYielded(c) == InSeq(c, yielded)

C3_OrderFollowsReversedFlag ==
    pc = "done" =>
        /\ Self.reversed_order => yielded = SelectSeq(listed, IsYielded)
        /\ ~Self.reversed_order => yielded = Reverse(SelectSeq(listed, IsYielded))
        /\ Self.reversed_order => yielded = Survivors
        /\ ~Self.reversed_order => yielded = Reverse(Survivors)

C3_Witness ==
    /\ pc = "done"
    /\ ~Self.reversed_order
    /\ Self.since # None
    /\ Len(yielded) >= 2
    /\ yielded[1].hash > yielded[2].hash

(* C4: a conflicting combination of filters makes the constructor raise,   *)
(* with no call of the backend's commit listing made.                      *)
Conflicting(a) ==
    \/ /\ a.single # None
       /\ \/ a.since # None \/ a.to # None
          \/ a.from_commit # None \/ a.to_commit # None
          \/ a.from_tag # None \/ a.to_tag # None
    \/ a.from_commit # None /\ a.since # None
    \/ a.to_commit # None /\ a.to # None
    \/ a.from_tag # None /\ (a.since # None \/ a.from_commit # None)
    \/ a.to_tag # None /\ (a.to # None \/ a.to_commit # None)

(* C4 as stated: the error raised is always the configuration error. *)
C4_ConflictRaisesConfigError ==
    [][(pc = "init" /\ Conflicting(Val(args))) =>
         (pc' = "error" /\ err' = "config" /\ list_calls' = 0)]_vars

(* C4 as amended: the constructor raises and the listing is not called;    *)
(* the error is the configuration error, except that the backend's error   *)
(* can come first when a from_commit, to_commit or from_tag that is looked *)
(* up before the conflicting check does not resolve.                       *)
C4_ConflictRaises ==
    [][(pc = "init" /\ Conflicting(Val(args))) =>
         /\ pc' = "error"
         /\ list_calls' = 0
         /\ \/ err' = "config"
            \/ /\ err' = "backend"
               /\ Val(args).single = None
               /\ ~(Val(args).from_commit # None /\ Val(args).since # None)
               /\ \/ Val(args).from_commit # None
                  \/ Val(args).to_commit # None
                  \/ Val(args).from_tag # None]_vars

C4_Witness ==
    /\ pc = "error"
    /\ err = "config"
    /\ list_calls = 0
    /\ Val(args).from_commit # None /\ Val(args).since # None
    /\ Val(args).single = None /\ Val(args).to_tag # None /\ Val(args).to_commit # None

(* C5: with onlyFileTypeSuffixes set, a commit that passes the other       *)
(* filters is yielded exactly when one of its modifications has a filename *)
(* ending with one of the suffixes.                                        *)
PassesOtherFilters(self, c) ==
    /\ self.only_in_main_branch => MAIN_BRANCH \in c.branches
    /\ self.only_in_branches # None => c.branches \cap Val(self.only_in_branches) # {}
    /\ self.only_no_merge => Len(c.parents) <= 1

TouchesFileType(self, c) ==
    LET changed == Modifications(c)
        suffixes == Val(self.only_modifications_with_file_types)
    IN  \E k \in 1..Len(changed) :
          \E j \in 1..Len(suffixes) :
            LET name == Filename(changed[k])
            IN  /\ Len(suffixes[j]) <= Len(name)
                /\ \A i \in 1..Len(suffixes[j]) :
                     name[Len(name) - Len(suffixes[j]) + i] = suffixes[j][i]

C5_YieldedIffFileType ==
    (pc = "done" /\ Self.only_modifications_with_file_types # None) =>
        \A k \in 1..Len(all_cs) :
            PassesOtherFilters(Self, all_cs[k]) =>
                (IsYielded(all_cs[k]) <=> TouchesFileType(Self, all_cs[k]))

C5_Witness ==
    /\ pc = "done"
    /\ Self.only_modifications_with_file_types = Some(<<DOT_PY>>)
    /\ \E k \in 1..Len(all_cs) :
         /\ PassesOtherFilters(Self, all_cs[k])
         /\ DiffIndexOf(all_cs[k]) = <<ChangedEntry(PY_README_MD, B2, DIFF_OK)>>
         /\ ~IsYielded(all_cs[k])
    /\ \E k \in 1..Len(yielded) :
         \E j \in 1..Len(DiffIndexOf(yielded[k])) :
            DiffIndexOf(yielded[k])[j].a_path = Some(SRC_APP_PY)

---------------------------------------------------------------------------
(* Properties of diff resolution, checked under SpecDiff. *)

Parsing == dpc \in {"parse", "done"}

DiffDecodes(d) == Utf8Decode(d.diff) # None
BlobDecodes(d) == d.b_blob # None /\ Utf8Decode(Val(d.b_blob).data) # None

(* C6: one Modification per entry of the diff index, in the backend's      *)
(* order; an entry that fails to decode gets sourceCode = "" and an entry  *)
(* whose content decodes gets its diff text and source code, whatever its  *)
(* siblings do; the loop never stops before the end of the index.          *)
C6_OneModificationPerEntry ==
    Parsing =>
        /\ Len(mods) = d_k - 1
        /\ dpc = "done" => Len(mods) = Len(d_index)
        /\ \A k \in 1..Len(mods) :
             /\ mods[k].old_path = d_index[k].a_path
             /\ mods[k].new_path = d_index[k].b_path
             /\ ~(DiffDecodes(d_index[k]) /\ BlobDecodes(d_index[k]))
                  => mods[k].source_code = <<>>
             /\ (DiffDecodes(d_index[k]) /\ BlobDecodes(d_index[k]))
                  => /\ mods[k].diff = Val(Utf8Decode(d_index[k].diff))
                     /\ mods[k].source_code = Val(Utf8Decode(Val(d_index[k].b_blob).data))

C6_Witness ==
    /\ dpc = "done"
    /\ Len(mods) = 2
    /\ d_index[1].b_blob = Some(B3)
    /\ mods[1].source_code = <<>>
    /\ mods[2].source_code = <<"a", "e-acute">>
    /\ mods[2].diff = <<"+", "a", "\n">>
    /\ mods[1].new_path = Some(APP_PY) /\ mods[2].new_path = Some(README_MD)

(* C7: a commit with no parent is diffed against the empty tree, and each  *)
(* of its Modifications has changeType Add and no old path.                *)
C7_RootCommitAddsOnly ==
    (Parsing /\ Len(c_parents) = 0) =>
        /\ diff_base = NULL_TREE
        /\ \A k \in 1..Len(mods) :
             mods[k].change_type = ADD /\ mods[k].old_path = None

C7_Witness ==
    /\ dpc = "done"
    /\ c_parents = <<>>
    /\ Len(mods) = 2
    /\ mods[1].change_type = ADD /\ mods[2].change_type = ADD

(* C9: each text field is emptied only by its own failure: diffText is the *)
(* decoded diff unless the diff bytes fail to decode, sourceCode is the    *)
(* decoded post-change blob unless the blob is absent or fails to decode.  *)
C9_FieldsFailIndependently ==
    Parsing =>
        \A k \in 1..Len(mods) :
            /\ mods[k].diff = IF DiffDecodes(d_index[k])
                              THEN Val(Utf8Decode(d_index[k].diff))
                              ELSE <<>>
            /\ mods[k].source_code = IF BlobDecodes(d_index[k])
                                     THEN Val(Utf8Decode(Val(d_index[k].b_blob).data))
                                     ELSE <<>>

(* C10: every Modification has a change type of the enumeration: Add if    *)
(* the entry is new, else Delete if deleted, else Rename if renamed, else  *)
(* Modify.                                                                 *)
C10_ChangeTypeDefined ==
    Parsing =>
        \A k \in 1..Len(mods) :
            /\ mods[k].change_type \in ModificationType
            /\ mods[k].change_type =
                 IF d_index[k].new_file THEN ADD
                 ELSE IF d_index[k].deleted_file THEN DELETE
                 ELSE IF d_index[k].renamed_file THEN RENAME
                 ELSE MODIFY

---------------------------------------------------------------------------
(* Modification.added and Modification.removed on a Modification built     *)
(* from a diff text.                                                       *)

InitLines ==
    /\ got = {} /\ diff_txt \in DiffStrings /\ added = 0 /\ removed = 0
    /\ MiningIdle /\ DiffIdle

ReadAdded ==
    /\ "added" \notin got
    /\ got # {"idle"}
    /\ added' = Added(diff_txt)
    /\ got' = got \cup {"added"}
    /\ UNCHANGED <<diff_txt, removed, mvars, dvars>>

ReadRemoved ==
    /\ "removed" \notin got
    /\ got # {"idle"}
    /\ removed' = Removed(diff_txt)
    /\ got' = got \cup {"removed"}
    /\ UNCHANGED <<diff_txt, added, mvars, dvars>>

NextLines == ReadAdded \/ ReadRemoved

SpecLines == InitLines /\ [][NextLines]_vars

(* C8: added is the number of lines of the diff text (carriage returns     *)
(* dropped, split at newlines) that begin with '+' and not with '+++';     *)
(* removed is the same count for '-' and '---'; the text                   *)
(* "+++ b/x.py\n+print(1)\n" has added = 1.                                *)
NoCR(s) == SelectSeq(s, LAMBDA ch : ch # "\r")

LineStarts(s) == {k \in 1..Len(s) : k = 1 \/ s[k - 1] = "\n"}

MarkedLines(s, ch) ==
    {k \in LineStarts(s) :
        /\ s[k] = ch
        /\ ~(k + 2 <= Len(s) /\ s[k + 1] = ch /\ s[k + 2] = ch)}

C8_CountsMarkedLines ==
    /\ "added" \in got => added = Cardinality(MarkedLines(NoCR(diff_txt), "+"))
    /\ "removed" \in got => removed = Cardinality(MarkedLines(NoCR(diff_txt), "-"))
    /\ ("added" \in got /\ diff_txt = EXAMPLE_DIFF) => added = 1

C8_Witness ==
    /\ got = {"added", "removed"}
    /\ diff_txt = EXAMPLE_DIFF
    /\ added = 1

(***************************************************************************)
(* The order of the predicates of _is_commit_filtered.                     *)
(***************************************************************************)
FILTER_ORDER == <<"in_main_branch", "branches", "modifications", "merge">>

Active(self, p) ==
    CASE p = "in_main_branch" -> self.only_in_main_branch
      [] p = "branches" -> self.only_in_branches # None
      [] p = "modifications" -> self.only_modifications_with_file_types # None
      [] p = "merge" -> self.only_no_merge

Rejects(self, p, c) ==
    /\ Active(self, p)
    /\ CASE p = "in_main_branch" -> MAIN_BRANCH \notin c.branches
          [] p = "branches" -> c.branches \cap Val(self.only_in_branches) = {}
          [] p = "modifications" -> ~TouchesFileType(self, c)
          [] p = "merge" -> Len(c.parents) > 1

IsActive(p) == Active(Self, p)
ActivePredicates == SelectSeq(FILTER_ORDER, IsActive)

(* The active predicates up to and including the first that rejects c. *)
ExpectedReads(c) ==
    LET act == ActivePredicates
        rej == { k \in 1..Len(act) : Rejects(Self, act[k], c) }
        stop == IF rej = {} THEN Len(act)
                ELSE CHOOSE k \in rej : \A j \in rej : k <= j
    IN  SubSeq(act, 1, stop)

RejectedByBranch(c) ==
    Rejects(Self, "in_main_branch", c) \/ Rejects(Self, "branches", c)

(* C11: traverse_commits evaluates the active predicates of a commit in    *)
(* the order main branch, branches, file types, no merge, and stops at the *)
(* first that rejects; the backend is never asked for the diff of a commit *)
(* that the main-branch or the branches predicate rejects; and no active   *)
(* predicate rejects a yielded commit.                                     *)
C11_PredicatesInOrder ==
    Traversing =>
        /\ idx > 1 => reads = ExpectedReads(all_cs[idx - 1])
        /\ \A k \in 1..Len(all_cs) :
              RejectedByBranch(all_cs[k]) => all_cs[k].hash \notin diffed
        /\ \A k \in 1..Len(yielded) :
              \A j \in 1..Len(FILTER_ORDER) :
                ~Rejects(Self, FILTER_ORDER[j], yielded[k])

(* A finished traversal with the file-type filter set, where a branch      *)
(* predicate rejected a commit and the diff of another commit was read.    *)
C11_Witness ==
    /\ pc = "done"
    /\ Self.only_modifications_with_file_types # None
    /\ \E k \in 1..Len(all_cs) : RejectedByBranch(all_cs[k])
    /\ diffed # {}
    /\ yielded # <<>>

====
